---- MODULE Spec2Model ----
(***************************************************************************)
(* Grid-leader assessment dashboard (src/app.py): the two-table SQLite     *)
(* store (grid_leaders, assessments), the spreadsheet import with column   *)
(* mapping, export, retention purge, reset, and the scoring / grading of a *)
(* stored record.                                                          *)
(*                                                                         *)
(* Text values that the code compares, parses or formats (dates) are       *)
(* sequences of character codes, so that strptime, strftime and SQLite's   *)
(* byte-wise TEXT comparison are computed rather than assumed.  Floating   *)
(* point totals are IEEE-754 doubles, kept as exact multiples of 2^-57 in  *)
(* three limbs of 22 bits and rounded to 53 significant bits after every   *)
(* multiplication and addition, as CPython does.                           *)
(***************************************************************************)
EXTENDS Integers, Sequences, FiniteSets, TLC

(***************************************************************************)
(* Text                                                                    *)
(***************************************************************************)

\* Character codes of the punctuation the date formats use.
CharCode(c) ==
    CASE c = " " -> 32
      [] c = "-" -> 45
      [] c = "/" -> 47
      [] c = ":" -> 58

Digit(n) == 48 + n

IsDigit(ch) == ch >= 48 /\ ch <= 57

\* str.__contains__: ' ' in date_str
Contains(s, c) == \E i \in 1..Len(s) : s[i] = CharCode(c)

\* SQLite BINARY collation on TEXT: memcmp, then the shorter string first.
RECURSIVE StrLess(_, _)
StrLess(a, b) ==
    IF b = << >> THEN FALSE
    ELSE IF a = << >> THEN TRUE
    ELSE IF Head(a) # Head(b) THEN Head(a) < Head(b)
    ELSE StrLess(Tail(a), Tail(b))

\* The decimal digits of n, zero-padded to w characters (%Y -> 4, %m %d -> 2).
RECURSIVE Pad(_, _)
Pad(n, w) ==
    IF w = 0 THEN << >> ELSE Append(Pad(n \div 10, w - 1), Digit(n % 10))

(***************************************************************************)
(* Calendar (datetime)                                                     *)
(***************************************************************************)

IsLeap(y) == (y % 4 = 0 /\ y % 100 # 0) \/ y % 400 = 0

DaysInMonth(y, m) ==
    IF m = 2 THEN (IF IsLeap(y) THEN 29 ELSE 28)
    ELSE IF m \in {4, 6, 9, 11} THEN 30 ELSE 31

\* The day after a date.
NextDay(dt) ==
    IF dt.d < DaysInMonth(dt.y, dt.m) THEN [dt EXCEPT !.d = dt.d + 1]
    ELSE IF dt.m < 12 THEN [y |-> dt.y, m |-> dt.m + 1, d |-> 1]
    ELSE [y |-> dt.y + 1, m |-> 1, d |-> 1]

\* The day before a date.
PrevDay(dt) ==
    IF dt.d > 1 THEN [dt EXCEPT !.d = dt.d - 1]
    ELSE IF dt.m > 1 THEN [y |-> dt.y, m |-> dt.m - 1, d |-> DaysInMonth(dt.y, dt.m - 1)]
    ELSE [y |-> dt.y - 1, m |-> 12, d |-> 31]

\* datetime - timedelta(days=n)
RECURSIVE MinusDays(_, _)
MinusDays(dt, n) == IF n = 0 THEN dt ELSE MinusDays(PrevDay(dt), n - 1)

\* datetime + timedelta(days=n)
RECURSIVE PlusDays(_, _)
PlusDays(dt, n) == IF n = 0 THEN dt ELSE PlusDays(NextDay(dt), n - 1)

\* Chronological order of two dates.
DateBefore(a, b) ==
    \/ a.y < b.y
    \/ a.y = b.y /\ a.m < b.m
    \/ a.y = b.y /\ a.m = b.m /\ a.d < b.d

\* strftime('%Y/%m/%d')
Strftime(dt) ==
    Pad(dt.y, 4) \o <<CharCode("/")>> \o Pad(dt.m, 2) \o <<CharCode("/")>> \o Pad(dt.d, 2)

\* The number read by one strptime directive at position i of s: %Y takes
\* exactly four digits, the other directives two digits when two follow and
\* one otherwise.  len = 0 when the directive does not match.
TakeNum(s, i, dir) ==
    LET dig(k) == i + k <= Len(s) /\ IsDigit(s[i + k])
        val(k) == s[i + k] - 48
    IN  IF dir = "Y"
        THEN IF dig(0) /\ dig(1) /\ dig(2) /\ dig(3)
             THEN [n |-> 1000 * val(0) + 100 * val(1) + 10 * val(2) + val(3), len |-> 4]
             ELSE [n |-> 0, len |-> 0]
        ELSE IF dig(0) /\ dig(1) THEN [n |-> 10 * val(0) + val(1), len |-> 2]
        ELSE IF dig(0) THEN [n |-> val(0), len |-> 1]
        ELSE [n |-> 0, len |-> 0]

\* The range of values a directive accepts.
InRange(dir, n) ==
    CASE dir = "Y" -> TRUE
      [] dir = "m" -> n >= 1 /\ n <= 12
      [] dir = "d" -> n >= 1 /\ n <= 31
      [] dir = "H" -> n >= 0 /\ n <= 23
      [] dir = "M" -> n >= 0 /\ n <= 59
      [] dir = "S" -> n >= 0 /\ n <= 61

Directives == {"Y", "m", "d", "H", "M", "S"}

\* Match s from position i against the format items fmt; the result is the
\* sequence of numbers read, or <<-1>> for a ValueError.
RECURSIVE MatchFmt(_, _, _, _)
MatchFmt(s, i, fmt, acc) ==
    IF fmt = << >> THEN (IF i = Len(s) + 1 THEN acc ELSE <<-1>>)
    ELSE IF Head(fmt) \in Directives
    THEN LET t == TakeNum(s, i, Head(fmt))
         IN  IF t.len = 0 \/ ~InRange(Head(fmt), t.n) THEN <<-1>>
             ELSE MatchFmt(s, i + t.len, Tail(fmt), Append(acc, t.n))
    ELSE IF i <= Len(s) /\ s[i] = CharCode(Head(fmt))
    THEN MatchFmt(s, i + 1, Tail(fmt), acc)
    ELSE <<-1>>

FmtDate == <<"Y", "-", "m", "-", "d">>
FmtDateTime == <<"Y", "-", "m", "-", "d", " ", "H", ":", "M", ":", "S">>

\* The datetime of the numbers v that a format matched: [ok |-> FALSE] stands
\* for ValueError (no match, or a day the month does not have).
DateOfFields(v) ==
    IF v = <<-1>> \/ v[3] > DaysInMonth(v[1], v[2])
    THEN [ok |-> FALSE, dt |-> [y |-> 0, m |-> 0, d |-> 0]]
    ELSE [ok |-> TRUE, dt |-> [y |-> v[1], m |-> v[2], d |-> v[3]]]

\* datetime.strptime(s, fmt)
Strptime(s, fmt) == DateOfFields(MatchFmt(s, 1, fmt, << >>))

\* date_value = date_obj.strftime('%Y/%m/%d'), when the parse succeeded.
DateValue(p) == [ok |-> p.ok, date_value |-> IF p.ok THEN Strftime(p.dt) ELSE << >>]

\* Lines 378-383 of import_data: pick the format by the presence of a blank,
\* parse, and reformat as '%Y/%m/%d'.
ParseRowDate(date_str) ==
    DateValue(Strptime(date_str, IF Contains(date_str, " ") THEN FmtDateTime ELSE FmtDate))

(***************************************************************************)
(* Floating point (IEEE-754 binary64, round to nearest, ties to even)      *)
(***************************************************************************)

\* DIMENSIONS has 22 entries, db_columns the 22 column names beside them.
NDims == 22

DIMENSIONS == 1..NDims

\* 1/22 lies in (2^-5, 2^-4), so its 53-bit significand counts units of
\* 2^-(52+5); every product and partial sum of the scoring is a multiple of
\* that unit and is kept as the exact count of units.
FracBits == 52 + 5

\* A count of units is <<l0, l1, l2>> = l0 + l1*2^22 + l2*2^44.
LimbBits == 11 + 11

Limb == 2^LimbBits

\* Carry propagation.
BigNorm(x) ==
    LET c0 == x[1] \div Limb
        y1 == x[2] + c0
        c1 == y1 \div Limb
    IN  <<x[1] % Limb, y1 % Limb, x[3] + c1>>

BigAdd(a, b) == BigNorm(<<a[1] + b[1], a[2] + b[2], a[3] + b[3]>>)

\* a * s for a small natural s (s < 2^8).
BigMulSmall(a, s) == BigNorm(<<a[1] * s, a[2] * s, a[3] * s>>)

BigGE(a, b) ==
    \/ a[3] > b[3]
    \/ a[3] = b[3] /\ a[2] > b[2]
    \/ a[3] = b[3] /\ a[2] = b[2] /\ a[1] >= b[1]

\* The double that an integer n (n < 2^7 here) is: n * 2^57 units.
BigOfInt(n) == <<0, 0, n * 2^(FracBits - 2 * LimbBits)>>

\* The number of low bits a value must lose to fit 53 significant bits:
\* 53 bits reach bit 8 of the top limb.
RECURSIVE ExcessBits(_, _)
ExcessBits(top, k) ==
    IF top < 2^(53 - 2 * LimbBits + k) THEN k ELSE ExcessBits(top, k + 1)

\* Drop the k low bits of a, rounding to nearest, ties to even.
RoundAt(a, k) ==
    IF k = 0 THEN a
    ELSE LET r == a[1] % 2^k
             half == 2^(k - 1)
             lsb == (a[1] \div 2^k) % 2
         IN  BigNorm(<<a[1] - r + (IF r > half \/ (r = half /\ lsb = 1) THEN 2^k ELSE 0),
                       a[2], a[3]>>)

\* Round an exact value to the nearest double, ties to even.
Fl(a) == RoundAt(a, ExcessBits(a[3], 0))

\* Float multiplication and addition.
FMulInt(w, s) == Fl(BigMulSmall(w, s))

FAdd(a, b) == Fl(BigAdd(a, b))

\* Long division of a by a small n, top limb first: the quotient's limbs and
\* the remainder.
DivTop(a, n) == [q |-> a[3] \div n, r |-> a[3] % n]

DivNext(limb, prev, n) ==
    [q |-> (prev.r * Limb + limb) \div n, r |-> (prev.r * Limb + limb) % n]

\* The quotient rounded to an integer, ties to even.
RoundQuotient(d2, d1, d0, n) ==
    BigNorm(<<d0.q + (IF 2 * d0.r > n \/ (2 * d0.r = n /\ d0.q % 2 = 1) THEN 1 ELSE 0),
              d1.q, d2.q>>)

DivMid(a, d2, n) == [d2 |-> d2, d1 |-> DivNext(a[2], d2, n)]

DivLow(a, d, n) == RoundQuotient(d.d2, d.d1, DivNext(a[1], d.d1, n), n)

\* 1 / n as a double, for 16 < n < 32: 2^57 / n rounded to an integer.
FRecip(n) == DivLow(BigOfInt(1), DivMid(BigOfInt(1), DivTop(BigOfInt(1), n), n), n)

(***************************************************************************)
(* Scoring                                                                 *)
(***************************************************************************)

\* None, NaN and SQL NULL; a present value v is <<v>>.
Null == << >>

Some(v) == <<v>>

\* WEIGHTS = {dim: 1/len(DIMENSIONS) for dim in DIMENSIONS}
WEIGHTS == [dim \in DIMENSIONS |-> FRecip(NDims)]

\* validate_score: float(score) in [0, 100]; None raises TypeError -> False.
validate_score(score) ==
    IF score = Null THEN FALSE ELSE 0 <= score[1] /\ score[1] <= 100

\* handle_none_scores: every dimension absent from the dict or None becomes 0.
handle_none_scores(scores, dimensions) ==
    [dim \in (DOMAIN scores) \cup dimensions |->
        IF dim \in dimensions /\ (dim \notin DOMAIN scores \/ scores[dim] = Null)
        THEN Some(0) ELSE scores[dim]]

\* dict.get(dim, 0)
DictGet(scores, dim) == IF dim \in DOMAIN scores THEN scores[dim] ELSE Some(0)

\* The loop of calculate_total_score from dimension `dim` on, with the running
\* total; None * float raises TypeError, which ends the loop.
\* total += score * weight
AddScore(total, score, weight) ==
    IF score = Null THEN [err |-> TRUE, v |-> total.v]
    ELSE [err |-> FALSE, v |-> FAdd(total.v, FMulInt(weight, score[1]))]

RECURSIVE TotalFrom(_, _, _, _)
TotalFrom(scores, weights, dim, total) ==
    IF total.err \/ dim > NDims THEN total
    ELSE TotalFrom(scores, weights, dim + 1,
                   AddScore(total, DictGet(scores, dim), weights[dim]))

\* calculate_total_score(scores, weights, dimensions): [err |-> TRUE] is the
\* TypeError, otherwise v is the float total.
calculate_total_score(scores, weights) ==
    TotalFrom(scores, weights, 1, [err |-> FALSE, v |-> BigOfInt(0)])

\* THRESHOLDS
ThresholdExcellent == 85

ThresholdGood == 75

ThresholdAcceptable == 60

\* A grading whose comparisons are strict.
Grade_Strict(total_score) ==
    IF ~BigGE(BigOfInt(ThresholdExcellent), total_score) THEN "Excellent"
    ELSE IF ~BigGE(BigOfInt(ThresholdGood), total_score) THEN "Good"
    ELSE IF ~BigGE(BigOfInt(ThresholdAcceptable), total_score) THEN "Acceptable"
    ELSE "NeedsImprovement"

\* The conditional expression of lines 699-701 and 714-716: "优秀", "良好",
\* "合格", "待改进" are written Excellent, Good, Acceptable, NeedsImprovement.
Grade(total_score) ==
    IF BigGE(total_score, BigOfInt(ThresholdExcellent)) THEN "Excellent"
    ELSE IF BigGE(total_score, BigOfInt(ThresholdGood)) THEN "Good"
    ELSE IF BigGE(total_score, BigOfInt(ThresholdAcceptable)) THEN "Acceptable"
    ELSE "NeedsImprovement"

(***************************************************************************)
(* Bounds and inputs                                                       *)
(***************************************************************************)

\* Rows of one uploaded file.
MaxRows == 2

\* Rows that the AUTOINCREMENT counter of either table may hand out.
MaxSeq == 2

\* Days the wall clock advances.
MaxTicks == 2

\* The wall-clock date of the first run; the clock then crosses a month end.
StartDate == [y |-> 2025, m |-> 9, d |-> 29]

\* st.number_input("保留数据天数", min_value=1, value=30)
DefaultRetention == 30

RetentionDays == {1, 2, DefaultRetention}

\* The text of a date cell: str(row[mapped_fields['date']]).
DashDate(y, m, d) ==
    Pad(y, 4) \o <<CharCode("-")>> \o Pad(m, 2) \o <<CharCode("-")>> \o Pad(d, 2)

TimeOfDay == <<CharCode(" ")>> \o Pad(14, 2) \o <<CharCode(":")>> \o Pad(0, 2)
                \o <<CharCode(":")>> \o Pad(0, 2)

\* A score column holding the same value in every dimension.
Uniform(v) == [dim \in DIMENSIONS |-> Some(v)]

\* The rows a file may hold.  Names n1, n2 or an empty cell (NaN); the date
\* texts 2023-09-30, 2023-09-30 14:00:00, 2025-10-01 and 30/09/2023; scores
\* in range, out of range (150) and an empty cell (NaN).
InputRows ==
    { [name |-> Some("n1"), area |-> Some("a1"), date |-> DashDate(2023, 9, 30),
       scores |-> Uniform(100)],
      [name |-> Some("n1"), area |-> Some("a2"), date |-> DashDate(2023, 9, 30) \o TimeOfDay,
       scores |-> [Uniform(85) EXCEPT ![1] = Some(150)]],
      [name |-> Some("n2"), area |-> Some("a1"), date |-> DashDate(2025, 10, 1),
       scores |-> [Uniform(60) EXCEPT ![2] = Null]],
      [name |-> Some("n2"), area |-> Some("a1"),
       date |-> Pad(30, 2) \o <<CharCode("/")>> \o Pad(9, 2) \o <<CharCode("/")>> \o Pad(2023, 4),
       scores |-> Uniform(100)],
      [name |-> Null, area |-> Some("a2"), date |-> DashDate(2023, 9, 30),
       scores |-> Uniform(100)] }

RECURSIVE SeqsUpTo(_, _)
SeqsUpTo(S, n) ==
    IF n = 0 THEN {<< >>}
    ELSE LET shorter == SeqsUpTo(S, n - 1)
         IN  shorter \cup {Append(q, e) : q \in {r \in shorter : Len(r) = n - 1}, e \in S}

\* The data frames an upload parses to (df.empty is refused before the mapping).
InputFiles == SeqsUpTo(InputRows, MaxRows) \ {<< >>}

\* '无匹配列' / '无匹配列（设为0）': the select box's "no such column" choice.
NoMatch == "NoMatch"

\* mapped_fields: name, area and date name a file column or NoMatch; a
\* dimension is mapped to its own column or to NoMatch.
IdentityMapping ==
    [name |-> "name", area |-> "area", date |-> "date", dims |-> [dim \in DIMENSIONS |-> TRUE]]

InputMappings ==
    { IdentityMapping,
      [IdentityMapping EXCEPT !.name = NoMatch],
      [IdentityMapping EXCEPT !.area = NoMatch],
      [IdentityMapping EXCEPT !.date = NoMatch],
      [IdentityMapping EXCEPT !.dims = [dim \in DIMENSIONS |-> dim # 1]] }

(***************************************************************************)
(* The store                                                               *)
(***************************************************************************)

VARIABLES
    grid_leaders,     \* table grid_leaders, in rowid order: [id, name, area]
    assessments,      \* table assessments, in rowid order:
                      \*   [id, leader_id, date, scores, import_date]
    seq_leaders,      \* sqlite_sequence of grid_leaders (AUTOINCREMENT)
    seq_assessments,  \* sqlite_sequence of assessments (AUTOINCREMENT)
    today,            \* datetime.now(), as a date
    last,             \* what the last operation was and how it returned
    view,             \* the scoring of the main view
    all_leaders,      \* st.session_state.all_leaders, the cached leader list
    confirm_import    \* st.session_state.confirm_import

\* The session state, which lasts from one run of the script to the next.
session == <<all_leaders, confirm_import>>

vars == <<grid_leaders, assessments, seq_leaders, seq_assessments, today, last, view,
          all_leaders, confirm_import>>

NoView == [stage |-> "none"]

\* The record of an operation's return: its name, whether it returned True
\* (err = ""), whether it opened a connection, the rows it was given (import)
\* or deleted (clear_expired_data), the identity fields left unmapped
\* (import) and the retention days (clear_expired_data).  arg keeps what an
\* operation that reached its commit was called with: the (name, area) cells
\* of the file's rows (import), the id and the scores (update_assessment).
Returned(op, err, connected, n, unmapped, days) ==
    [op |-> op, ok |-> err = "", err |-> err, connected |-> connected, n |-> n,
     unmapped |-> unmapped, days |-> days, arg |-> << >>]

StoreInit ==
    /\ grid_leaders = << >>
    /\ assessments = << >>
    /\ seq_leaders = 0
    /\ seq_assessments = 0
    /\ today = StartDate
    /\ last = Returned("start", "", FALSE, 0, {}, 0)
    /\ all_leaders = << >>
    /\ confirm_import = FALSE

Init == StoreInit /\ view = NoView

(***************************************************************************)
(* import_data                                                             *)
(***************************************************************************)

\* A data frame handed on with its duplicates.
drop_duplicates_KeepAll(rows) == [i \in 1..Len(rows) |-> [row |-> rows[i], first |-> TRUE]]

\* df.drop_duplicates(subset=[name, area]): the first row of every pair.
drop_duplicates(rows) ==
    SelectSeq([i \in 1..Len(rows) |-> [row |-> rows[i], first |->
                  \A j \in 1..(i - 1) :
                      rows[j].name # rows[i].name \/ rows[j].area # rows[i].area]],
              LAMBDA e : e.first)

\* INSERT OR IGNORE INTO grid_leaders (name, area): the table declares no
\* UNIQUE constraint, so the only conflict that is ignored is NOT NULL.
InsertOrIgnoreLeader(tbl, name, area) ==
    IF name = Null \/ area = Null THEN tbl
    ELSE [rows |-> Append(tbl.rows, [id |-> tbl.seq + 1, name |-> name[1], area |-> area[1]]),
          seq |-> tbl.seq + 1]

\* Lines 348-351: one INSERT OR IGNORE per row of leaders_data.
RECURSIVE InsertLeaders(_, _)
InsertLeaders(leaders_data, tbl) ==
    IF leaders_data = << >> THEN tbl
    ELSE InsertLeaders(Tail(leaders_data),
             InsertOrIgnoreLeader(tbl, Head(leaders_data).row.name, Head(leaders_data).row.area))

\* SELECT id FROM grid_leaders WHERE name = ? ; fetchone(): the first row in
\* rowid order whose name matches, Null when there is none (NULL = NULL is
\* not true in SQL).
SelectLeaderByName(leaders, leader_name) ==
    LET hits == IF leader_name = Null THEN {}
                ELSE {i \in 1..Len(leaders) : leaders[i].name = leader_name[1]}
    IN  IF hits = {} THEN Null
        ELSE Some(leaders[CHOOSE i \in hits : \A j \in hits : i <= j].id)

\* Lines 358-365: a mapped dimension takes the file's column, an unmapped one 0.
MappedScores(row, mapped_fields) ==
    [dim \in DIMENSIONS |-> IF mapped_fields.dims[dim] THEN row.scores[dim] ELSE Some(0)]

\* Lines 369-395: one row of assessment_data, given the leader looked up by
\* its name and its parsed date.  A row without a leader is passed over; a
\* date that does not parse ends the import (err = "date").  import_date is
\* datetime.now().strftime('%Y/%m/%d'); imported_on is not a column: it keeps
\* the date that text was made from.
InsertAssessment(tbl, scores, leader, parsed, now) ==
    IF leader = Null THEN tbl
    ELSE IF ~parsed.ok THEN [tbl EXCEPT !.err = "date"]
    ELSE [rows |-> Append(tbl.rows,
                     [id |-> tbl.seq + 1,
                      leader_id |-> leader[1],
                      date |-> parsed.date_value,
                      scores |-> scores,
                      import_date |-> Strftime(now),
                      imported_on |-> now]),
          seq |-> tbl.seq + 1,
          err |-> ""]

\* Lines 368-395: the loop over assessment_data, which stops at the first
\* date error.
RECURSIVE InsertAssessments(_, _, _, _, _)
InsertAssessments(rows, mapped_fields, leaders, now, tbl) ==
    IF rows = << >> \/ tbl.err # "" THEN tbl
    ELSE InsertAssessments(Tail(rows), mapped_fields, leaders, now,
             InsertAssessment(tbl, MappedScores(Head(rows), mapped_fields),
                              SelectLeaderByName(leaders, Head(rows).name),
                              ParseRowDate(Head(rows).date), now))

\* The identity fields whose select box was left at '无匹配列'.
Unmapped(mapped_fields) ==
    {f \in {"name", "area", "date"} : mapped_fields[f] = NoMatch}

\* A check that forgets the area and the date.
MappingComplete_NameOnly(mapped_fields) == mapped_fields.name # NoMatch

\* Line 332: the three identity columns must be mapped.
MappingComplete(mapped_fields) ==
    ~(mapped_fields.name = NoMatch \/ mapped_fields.area = NoMatch
        \/ mapped_fields.date = NoMatch)

\* What can go wrong outside the program's control: sqlite3.connect raises
\* (get_db_connection returns None), or a statement raises sqlite3.Error.
Faults == {"none", "connect", "storage"}

\* sqlite3.Connection.__exit__, which ends the block `with conn:`: rollback
\* when the block raised, commit otherwise -- also when the block is left by
\* the `return False` of the date error.
ConnExit(how) == IF how = "exception" THEN "rollback" ELSE "commit"

\* The name and area cells of the rows of a data frame, in file order.
Keys(df) == [i \in 1..Len(df) |-> [name |-> df[i].name, area |-> df[i].area]]

\* A date error that returns with the flag still set.
ConfirmAfter_KeptOnBadDate(err) == err = "date"

\* st.session_state.confirm_import = False, the statement before each return
\* of an import attempt: lines 334 (unmapped field), 340 (no connection), 386
\* (date error), 400 (success) and 404 (exception).
ConfirmAfter(err) == FALSE

\* get_all_leaders(refresh=True) at line 398 runs inside `with conn:` on a
\* connection of its own, before the import's transaction is committed: it
\* reads the committed rows, those grid_leaders held before the import.
RefreshInsideImport(committed, cached, err) == IF err = "" THEN committed ELSE cached

\* import_data once the button has set confirm_import, on data frame df.
ImportData(df, mapped_fields, fault, op) ==
    IF ~MappingComplete(mapped_fields)
    THEN /\ UNCHANGED <<grid_leaders, assessments, seq_leaders, seq_assessments, all_leaders>>
         /\ confirm_import' = ConfirmAfter("mapping")
         /\ last' = Returned(op, "mapping", FALSE, Len(df), Unmapped(mapped_fields), 0)
    ELSE IF fault = "connect"
    THEN /\ UNCHANGED <<grid_leaders, assessments, seq_leaders, seq_assessments, all_leaders>>
         /\ confirm_import' = ConfirmAfter("connect")
         /\ last' = Returned(op, "connect", FALSE, Len(df), Unmapped(mapped_fields), 0)
    ELSE \E ltbl \in {InsertLeaders(drop_duplicates(df),
                                    [rows |-> grid_leaders, seq |-> seq_leaders])} :
         \E atbl \in {InsertAssessments(df, mapped_fields, ltbl.rows, today,
                          [rows |-> assessments, seq |-> seq_assessments, err |-> ""])} :
         \E err \in {IF fault = "storage" THEN "storage" ELSE atbl.err} :
         \E end \in {ConnExit(IF err = "storage" THEN "exception" ELSE "return")} :
             /\ grid_leaders' = IF end = "commit" THEN ltbl.rows ELSE grid_leaders
             /\ seq_leaders' = IF end = "commit" THEN ltbl.seq ELSE seq_leaders
             /\ assessments' = IF end = "commit" THEN atbl.rows ELSE assessments
             /\ seq_assessments' = IF end = "commit" THEN atbl.seq ELSE seq_assessments
             /\ all_leaders' = RefreshInsideImport(grid_leaders, all_leaders, err)
             /\ confirm_import' = ConfirmAfter(err)
             /\ last' = [Returned(op, err, TRUE, Len(df), Unmapped(mapped_fields), 0)
                            EXCEPT !.arg = IF end = "commit" THEN Keys(df) ELSE << >>]

\* The AUTOINCREMENT counters stay within the model's bound.
WithinSeq(n) == seq_leaders + n <= MaxSeq /\ seq_assessments + n <= MaxSeq

\* A file is uploaded, its columns are mapped and the button is pressed:
\* line 328 sets confirm_import, line 330 finds it set.
Import ==
    \E df \in InputFiles, mapped_fields \in InputMappings, fault \in Faults :
        /\ WithinSeq(Len(df))
        /\ ImportData(df, mapped_fields, fault, "import")
        /\ UNCHANGED <<today, view>>

\* The script runs again with a file still in the uploader and the button
\* not pressed (any other widget was used): import_data(uploaded_file) is
\* called, and line 330 starts an import only if the flag was left set.
Rerun ==
    /\ IF confirm_import
       THEN \E df \in InputFiles, mapped_fields \in InputMappings, fault \in Faults :
               /\ WithinSeq(Len(df))
               /\ ImportData(df, mapped_fields, fault, "rerun")
       ELSE /\ UNCHANGED <<grid_leaders, assessments, seq_leaders, seq_assessments, session>>
            /\ last' = Returned("rerun", "unconfirmed", FALSE, 0, {}, 0)
    /\ UNCHANGED <<today, view>>

(***************************************************************************)
(* export_assessment_data and the re-import of what it returns             *)
(***************************************************************************)

\* ORDER BY a.date DESC: insertion of one row into a list sorted by date,
\* latest first, after the rows of the same date.
RECURSIVE InsertByDateDesc(_, _)
InsertByDateDesc(sorted, r) ==
    IF sorted = << >> THEN <<r>>
    ELSE IF StrLess(Head(sorted).date, r.date) THEN <<r>> \o sorted
    ELSE <<Head(sorted)>> \o InsertByDateDesc(Tail(sorted), r)

RECURSIVE OrderByDateDesc(_)
OrderByDateDesc(rows) ==
    IF rows = << >> THEN << >>
    ELSE InsertByDateDesc(OrderByDateDesc(SelectSeq(rows, LAMBDA r : r.id # rows[Len(rows)].id)),
                          rows[Len(rows)])

\* g.name, g.area of a LEFT JOIN grid_leaders g ON a.leader_id = g.id.
LeftJoinLeader(leaders, leader_id) ==
    LET hits == {i \in 1..Len(leaders) : leaders[i].id = leader_id}
    IN  IF hits = {} THEN [name |-> Null, area |-> Null]
        ELSE LET g == leaders[CHOOSE i \in hits : TRUE]
             IN  [name |-> Some(g.name), area |-> Some(g.area)]

\* export_assessment_data(None): every assessment with its leader's name and
\* area, latest date first.  The data frame's columns are those of the
\* tables, so the same names map them back (the identity mapping).
ExportRow(a, g) == [name |-> g.name, area |-> g.area, date |-> a.date, scores |-> a.scores]

ExportRows(leaders, ordered) ==
    [i \in 1..Len(ordered) |->
        ExportRow(ordered[i], LeftJoinLeader(leaders, ordered[i].leader_id))]

export_assessment_data(leaders, records) == ExportRows(leaders, OrderByDateDesc(records))

\* The exported sheet is uploaded again and imported with every field mapped
\* to the column of its own name.
ExportReimport ==
    \E fault \in Faults, df \in {export_assessment_data(grid_leaders, assessments)} :
        /\ df # << >>
        /\ WithinSeq(Len(df))
        /\ ImportData(df, IdentityMapping, fault, "reimport")
        /\ UNCHANGED <<today, view>>

(***************************************************************************)
(* update_assessment, clear_expired_data, clear_data, the clock            *)
(***************************************************************************)

\* The scores dictionaries handed to update_assessment; the last lacks a
\* dimension, so scores[dim] raises KeyError.
UpdateScores ==
    { Uniform(100),
      [Uniform(85) EXCEPT ![1] = Some(150)],
      [Uniform(60) EXCEPT ![2] = Null],
      [dim \in 2..NDims |-> Some(100)] }

\* What a committed update_assessment was called with.
UpdateArgs(assessment_id, scores) == <<[id |-> assessment_id, scores |-> scores]>>

\* An UPDATE that lost its WHERE clause: every record is rewritten.
update_assessment_EveryRow(assessment_id, scores, fault) ==
    IF fault # "none" \/ ~(DIMENSIONS \subseteq DOMAIN scores)
    THEN /\ UNCHANGED assessments
         /\ last' = Returned("update", "storage", fault # "connect", 0, {}, 0)
    ELSE /\ assessments' = [i \in 1..Len(assessments) |->
                               [assessments[i] EXCEPT
                                   !.scores = [dim \in DIMENSIONS |-> scores[dim]]]]
         /\ last' = [Returned("update", "", TRUE, 0, {}, 0)
                        EXCEPT !.arg = UpdateArgs(assessment_id, scores)]

\* update_assessment(assessment_id, scores): UPDATE assessments SET <every
\* dimension column> WHERE id = ?
update_assessment(assessment_id, scores, fault) ==
    IF fault = "connect"
    THEN /\ UNCHANGED assessments
         /\ last' = Returned("update", "connect", FALSE, 0, {}, 0)
    ELSE IF fault = "storage" \/ ~(DIMENSIONS \subseteq DOMAIN scores)
    THEN /\ UNCHANGED assessments
         /\ last' = Returned("update", IF fault = "storage" THEN "storage" ELSE "keyerror",
                              TRUE, 0, {}, 0)
    ELSE /\ assessments' = [i \in 1..Len(assessments) |->
                               IF assessments[i].id = assessment_id
                               THEN [assessments[i] EXCEPT
                                        !.scores = [dim \in DIMENSIONS |-> scores[dim]]]
                               ELSE assessments[i]]
         /\ last' = [Returned("update", "", TRUE, 0, {}, 0)
                        EXCEPT !.arg = UpdateArgs(assessment_id, scores)]

UpdateAssessment ==
    \E assessment_id \in 1..MaxSeq, scores \in UpdateScores, fault \in Faults :
        /\ update_assessment(assessment_id, scores, fault)
        /\ UNCHANGED <<grid_leaders, seq_leaders, seq_assessments, today, view, session>>

\* expired_date = (datetime.now() - timedelta(days=days)).strftime('%Y/%m/%d')
ExpiredDate(now, days) == Strftime(MinusDays(now, days))

\* A purge that compares the assessment date instead.
DeleteExpired_ByAssessmentDate(records, expired_date) ==
    SelectSeq(records, LAMBDA r : ~StrLess(r.date, expired_date))

\* DELETE FROM assessments WHERE import_date < ?
DeleteExpired(records, expired_date) ==
    SelectSeq(records, LAMBDA r : ~StrLess(r.import_date, expired_date))

\* clear_expired_data(days)
clear_expired_data(days, fault) ==
    IF fault # "none"
    THEN /\ UNCHANGED assessments
         /\ last' = Returned("clear_expired", fault, fault # "connect", 0, {}, days)
    ELSE /\ assessments' = DeleteExpired(assessments, ExpiredDate(today, days))
         /\ last' = Returned("clear_expired", "", TRUE,
                              Len(assessments) - Len(assessments'), {}, days)

ClearExpired ==
    \E days \in RetentionDays, fault \in Faults :
        /\ clear_expired_data(days, fault)
        /\ UNCHANGED <<grid_leaders, seq_leaders, seq_assessments, today, view, session>>

\* A clear_data that forgets the first DELETE.
ClearData_LeadersOnly ==
    /\ grid_leaders' = << >>
    /\ all_leaders' = << >>
    /\ last' = Returned("clear_data", "", TRUE, 0, {}, 0)
    /\ UNCHANGED <<assessments, seq_leaders, seq_assessments, today, view, confirm_import>>

\* clear_data(): DELETE FROM assessments; DELETE FROM grid_leaders.  The
\* AUTOINCREMENT counters are kept by sqlite_sequence.  On success the cache
\* is dropped (lines 476-477) and read again from the emptied table (629).
ClearData ==
    \E fault \in Faults :
        /\ IF fault # "none"
           THEN /\ UNCHANGED <<grid_leaders, assessments, all_leaders>>
                /\ last' = Returned("clear_data", fault, fault # "connect", 0, {}, 0)
           ELSE /\ grid_leaders' = << >>
                /\ assessments' = << >>
                /\ all_leaders' = << >>
                /\ last' = Returned("clear_data", "", TRUE, 0, {}, 0)
        /\ UNCHANGED <<seq_leaders, seq_assessments, today, view, confirm_import>>

\* ("示例网格长", "示例区域"), the leader the sidebar adds.
SampleName == "sample"

SampleArea == "sample_area"

\* Lines 535-551: the cached list has no leader, so a sample leader is
\* inserted and committed and the cache is read again.
SampleLeader ==
    \E fault \in Faults :
        /\ all_leaders = << >>
        /\ seq_leaders + 1 <= MaxSeq
        /\ IF fault # "none"
           THEN /\ UNCHANGED <<grid_leaders, seq_leaders, all_leaders>>
                /\ last' = Returned("sample", fault, fault # "connect", 0, {}, 0)
           ELSE \E ltbl \in {InsertOrIgnoreLeader([rows |-> grid_leaders, seq |-> seq_leaders],
                                                   Some(SampleName), Some(SampleArea))} :
                   /\ grid_leaders' = ltbl.rows
                   /\ seq_leaders' = ltbl.seq
                   /\ all_leaders' = ltbl.rows
                   /\ last' = Returned("sample", "", TRUE, 0, {}, 0)
        /\ UNCHANGED <<assessments, seq_assessments, today, view, confirm_import>>

\* A day passes.
Tick ==
    /\ DateBefore(today, PlusDays(StartDate, MaxTicks))
    /\ today' = NextDay(today)
    /\ last' = Returned("tick", "", FALSE, 0, {}, 0)
    /\ UNCHANGED <<grid_leaders, assessments, seq_leaders, seq_assessments, view, session>>

(***************************************************************************)
(* get_all_leaders_assessments and the main view                           *)
(***************************************************************************)

\* SELECT leader_id, MAX(date) FROM assessments GROUP BY leader_id
MaxDatePerLeader(records) ==
    { <<records[i].leader_id, records[i].date>> : i \in
        { i \in 1..Len(records) :
            \A j \in 1..Len(records) :
                records[j].leader_id = records[i].leader_id
                    => ~StrLess(records[i].date, records[j].date) } }

\* get_all_leaders_assessments(): the assessments, joined to their leader,
\* whose (leader_id, date) is one of the pairs above.
get_all_leaders_assessments(leaders, records) ==
    LET latest == MaxDatePerLeader(records)
        joined(a) == \E g \in 1..Len(leaders) : leaders[g].id = a.leader_id
    IN  SelectSeq(records, LAMBDA a : joined(a) /\ <<a.leader_id, a.date>> \in latest)

\* Line 693 and 708: scores = {dim: assessment.get(dim_to_db_col[dim], 0)}; the
\* row dictionary has every column, so a NULL column arrives as None.
ViewScores(assessment) == [dim \in DIMENSIONS |-> assessment.scores[dim]]

\* The totals the grading is applied to: every whole number of points from
\* 55.0 to 90.0, and the doubles next to each threshold (one unit in the last
\* place of a double between 64 and 128 is 2^-46, between 32 and 64 2^-47).
Ulp(t) == IF t >= 64 THEN 2^(FracBits - 46) ELSE 2^(FracBits - 47)

GradeInputs ==
    {BigOfInt(t) : t \in 55..90}
        \cup {BigAdd(BigOfInt(t), <<Ulp(t), 0, 0>>) :
                t \in {ThresholdExcellent, ThresholdGood, ThresholdAcceptable}}
        \cup {<<Limb - Ulp(t - 1), Limb - 1, BigOfInt(t)[3] - 1>> :
                t \in {ThresholdExcellent, ThresholdGood, ThresholdAcceptable}}

\* Lines 699-702: the grade of each of two totals.
GradeView ==
    /\ view.stage = "input"
    /\ view' = [stage |-> "graded", t1 |-> view.t1, t2 |-> view.t2,
                g1 |-> Grade(view.t1), g2 |-> Grade(view.t2)]
    /\ UNCHANGED <<grid_leaders, assessments, seq_leaders, seq_assessments, today, last,
                   session>>

GradeInit ==
    /\ StoreInit
    /\ view \in {[stage |-> "input", t1 |-> a, t2 |-> b] : a \in GradeInputs, b \in GradeInputs}

GradeNext == GradeView

\* The grading of pairs of totals.
SpecGrade == GradeInit /\ [][GradeNext]_vars

Next ==
    \/ Import
    \/ Rerun
    \/ SampleLeader
    \/ ExportReimport
    \/ UpdateAssessment
    \/ ClearExpired
    \/ ClearData
    \/ Tick

\* The store under every sequence of operations.
Spec == Init /\ [][Next]_vars

(***************************************************************************)
(* Claims                                                                  *)
(***************************************************************************)

\* C1: an import that meets a row whose date matches neither format fails
\* and leaves grid_leaders and assessments exactly as they were.
C1_BadDateLeavesStoreUntouched ==
    [][(last'.op = "import" /\ last'.err = "date")
         => (~last'.ok /\ grid_leaders' = grid_leaders /\ assessments' = assessments)]_vars

\* C2: after any sequence of imports grid_leaders holds at most one row per
\* (name, area) pair (no import duplicates a leader).
C2_OneLeaderPerPair ==
    \A i, j \in 1..Len(grid_leaders) :
        (grid_leaders[i].name = grid_leaders[j].name
            /\ grid_leaders[i].area = grid_leaders[j].area) => i = j

\* C3: every stored dimension score of every assessment lies in [0, 100].
C3_StoredScoresInRange ==
    \A i \in 1..Len(assessments) : \A dim \in DIMENSIONS :
        LET score == assessments[i].scores[dim]
        IN  score # Null => (0 <= score[1] /\ score[1] <= 100)

\* C4: an import confirmed while name, area or date is unmapped fails
\* without opening a connection, and no table or counter changes.
C4_UnmappedImportTouchesNothing ==
    [][(last'.op \in {"import", "reimport"} /\ last'.unmapped # {})
         => (/\ ~last'.ok
             /\ ~last'.connected
             /\ grid_leaders' = grid_leaders
             /\ assessments' = assessments
             /\ seq_leaders' = seq_leaders
             /\ seq_assessments' = seq_assessments)]_vars

\* C4 happens: such an import has just returned on a store that holds data.
C4_Witness ==
    /\ last.op = "import"
    /\ "area" \in last.unmapped
    /\ ~last.ok
    /\ Len(assessments) > 0
    /\ Len(grid_leaders) > 0

\* The total of the record a stored assessment is shown as.
TotalOf(assessment) == calculate_total_score(ViewScores(assessment), WEIGHTS)

\* C5: re-importing the exported rows with the identity mapping succeeds, and
\* every exported record then has a new record of the same leader (name, area)
\* with the same total.
C5_RoundTrip ==
    [][(last'.op = "reimport" /\ last'.err \notin {"connect", "storage"})
         => (/\ last'.ok
             /\ Len(assessments') = 2 * Len(assessments)
             /\ \A i \in 1..Len(assessments) :
                  \E j \in (Len(assessments) + 1)..Len(assessments') :
                     /\ LeftJoinLeader(grid_leaders', assessments'[j].leader_id)
                          = LeftJoinLeader(grid_leaders, assessments[i].leader_id)
                     /\ TotalOf(assessments'[j]) = TotalOf(assessments[i]))]_vars

\* C6: clear_expired_data(days) deletes exactly the assessments imported
\* before today minus days, whatever their assessment date, and no leader.
C6_PurgeByImportDate ==
    [][(last'.op = "clear_expired" /\ last'.ok)
         => (/\ grid_leaders' = grid_leaders
             /\ assessments' = SelectSeq(assessments,
                    LAMBDA r : ~DateBefore(r.imported_on, MinusDays(today, last'.days))))]_vars

\* C6 happens: a purge has deleted a record, and a record whose assessment
\* date lies before the cutoff but whose import does not is still there.
C6_Witness ==
    /\ last.op = "clear_expired"
    /\ last.ok
    /\ last.n > 0
    /\ \E i \in 1..Len(assessments) :
          /\ StrLess(assessments[i].date, ExpiredDate(today, last.days))
          /\ ~DateBefore(assessments[i].imported_on, MinusDays(today, last.days))

\* C7: for every stored record the total is computed without an error and
\* equals the total of the record with its null dimensions set to 0.
C7_ZeroFill ==
    \A i \in 1..Len(assessments) :
        /\ ~TotalOf(assessments[i]).err
        /\ TotalOf(assessments[i])
             = calculate_total_score(
                   handle_none_scores(ViewScores(assessments[i]), DIMENSIONS), WEIGHTS)

\* C8: the total of every stored record whose scores are all in [0, 100]
\* lies in [0, 100].
C8_TotalInRange ==
    \A i \in 1..Len(assessments) :
        (\A dim \in DIMENSIONS : validate_score(assessments[i].scores[dim]))
            => (/\ ~TotalOf(assessments[i]).err
                /\ BigGE(TotalOf(assessments[i]).v, BigOfInt(0))
                /\ BigGE(BigOfInt(100), TotalOf(assessments[i]).v))

\* Grades from worst to best.
GradeRank(g) ==
    CASE g = "NeedsImprovement" -> 0
      [] g = "Acceptable" -> 1
      [] g = "Good" -> 2
      [] g = "Excellent" -> 3

\* C9: of two graded totals the larger never has the worse grade, and a
\* total equal to a threshold has that threshold's grade.
C9_GradeMonotonic ==
    view.stage = "graded" =>
        /\ (BigGE(view.t1, view.t2) /\ view.t1 # view.t2)
              => GradeRank(view.g1) >= GradeRank(view.g2)
        /\ view.t1 = BigOfInt(85) => view.g1 = "Excellent"
        /\ view.t1 = BigOfInt(75) => view.g1 = "Good"
        /\ view.t1 = BigOfInt(60) => view.g1 = "Acceptable"
        /\ ~BigGE(view.t1, BigOfInt(60)) => view.g1 = "NeedsImprovement"

\* C9 happens: 75.0 is graded Good and the double just below it Acceptable.
C9_Witness ==
    /\ view.stage = "graded"
    /\ view.t1 = BigOfInt(75)
    /\ view.t2 # view.t1
    /\ BigGE(view.t1, view.t2)
    /\ BigGE(view.t2, BigAdd(BigOfInt(74), <<1, 0, 0>>))
    /\ view.g1 = "Good"
    /\ view.g2 = "Acceptable"

\* C10: get_all_leaders_assessments returns exactly one record for every
\* leader that has an assessment, and it carries the leader's latest date.
C10_OneLatestPerLeader ==
    LET result == get_all_leaders_assessments(grid_leaders, assessments)
    IN  \A g \in 1..Len(grid_leaders) :
          LET mine == {i \in 1..Len(assessments) :
                          assessments[i].leader_id = grid_leaders[g].id}
              got == {k \in 1..Len(result) : result[k].leader_id = grid_leaders[g].id}
          IN  mine # {} =>
                /\ Cardinality(got) = 1
                /\ \A k \in got : \A i \in mine :
                      ~StrLess(result[k].date, assessments[i].date)

\* The rows an import added to a table: those after the rows it had before.
Added(before, after) == SubSeq(after, Len(before) + 1, Len(after))

\* The (name, area) pairs of a file whose cells are both filled.
FilledPairs(keys) ==
    {<<keys[i].name[1], keys[i].area[1]>> : i \in
        {i \in 1..Len(keys) : keys[i].name # Null /\ keys[i].area # Null}}

\* C11: a successful import adds exactly one grid_leaders row for every
\* distinct (name, area) pair of its file, however many rows carry the pair,
\* and a file whose N rows all carry one pair adds N assessment records.
C11_OneLeaderManyRecords ==
    [][(last'.op = "import" /\ last'.ok)
         => (/\ \A p \in FilledPairs(last'.arg) :
                   Cardinality({i \in 1..Len(Added(grid_leaders, grid_leaders')) :
                       /\ Added(grid_leaders, grid_leaders')[i].name = p[1]
                       /\ Added(grid_leaders, grid_leaders')[i].area = p[2]}) = 1
             /\ Len(Added(grid_leaders, grid_leaders'))
                   = Cardinality(FilledPairs(last'.arg))
             /\ (Cardinality(FilledPairs(last'.arg)) = 1
                    /\ \A i \in 1..Len(last'.arg) :
                          last'.arg[i].name # Null /\ last'.arg[i].area # Null)
                  => Len(Added(assessments, assessments')) = Len(last'.arg))]_vars

\* C11 happens: an import of two rows of one pair has made one leader row
\* and two records.
C11_Witness ==
    /\ last.op = "import"
    /\ last.ok
    /\ Len(last.arg) = 2
    /\ Cardinality(FilledPairs(last.arg)) = 1
    /\ last.arg[1] = last.arg[2]
    /\ Len(grid_leaders) = 1
    /\ Len(assessments) = 2

\* C12: update_assessment(id, scores) that returns True has set every
\* dimension of the record with that id to the supplied value and nothing
\* else: its leader_id, date and import_date, every other record and every
\* leader row are as before; one that returns False has changed no record.
C12_UpdateFrame ==
    [][last'.op = "update"
         => (/\ grid_leaders' = grid_leaders
             /\ Len(assessments') = Len(assessments)
             /\ \A i \in 1..Len(assessments) :
                   /\ assessments'[i].id = assessments[i].id
                   /\ assessments'[i].leader_id = assessments[i].leader_id
                   /\ assessments'[i].date = assessments[i].date
                   /\ assessments'[i].import_date = assessments[i].import_date
                   /\ (last'.ok /\ assessments[i].id = last'.arg[1].id)
                        => \A dim \in DIMENSIONS :
                              assessments'[i].scores[dim] = last'.arg[1].scores[dim]
                   /\ (~last'.ok \/ assessments[i].id # last'.arg[1].id)
                        => assessments'[i].scores = assessments[i].scores)]_vars

\* C12 happens: of two records with different scores one has just been
\* rewritten, and the other still differs from it.
C12_Witness ==
    /\ last.op = "update"
    /\ last.ok
    /\ Len(assessments) = 2
    /\ \E i, j \in 1..2 :
          /\ assessments[i].id = last.arg[1].id
          /\ assessments[i].scores = last.arg[1].scores
          /\ assessments[j].id # last.arg[1].id
          /\ assessments[j].scores # assessments[i].scores

\* C13: when an import has made a record for every row of its file, the k-th
\* new record belongs to a leader whose name and area are those of the k-th
\* row.
C13_RecordFollowsRowIdentity ==
    [][(/\ last'.op = "import"
        /\ last'.ok
        /\ Len(Added(assessments, assessments')) = Len(last'.arg))
         => \A k \in 1..Len(last'.arg) :
              LeftJoinLeader(grid_leaders', Added(assessments, assessments')[k].leader_id)
                = last'.arg[k]]_vars

\* C14: an import that returns True has added one assessment record for
\* every row of its file, the number its success message reports.
C14_EveryRowMakesARecord ==
    [][(last'.op = "import" /\ last'.ok)
         => Len(Added(assessments, assessments')) = last'.n]_vars

\* C15: in every reachable state the leader_id of every assessment record is
\* the id of a row of grid_leaders.
C15_NoOrphanedRecord ==
    \A i \in 1..Len(assessments) :
        \E g \in 1..Len(grid_leaders) : grid_leaders[g].id = assessments[i].leader_id

\* C15 happens: records exist, the cached list was empty all the same, and
\* the sample leader has just been added next to the imported one.
C15_Witness ==
    /\ last.op = "sample"
    /\ last.ok
    /\ Len(assessments) > 0
    /\ Len(grid_leaders) = 2
    /\ grid_leaders[2].name = SampleName

\* C16: every return of an import attempt, whatever its exit, leaves
\* confirm_import False, and a run of the script without a press of the
\* button starts no import and changes no table.
C16_ConfirmClearedOnEveryExit ==
    [][(last'.op \in {"import", "reimport", "rerun"})
         => (/\ ~confirm_import'
             /\ last'.op = "rerun"
                  => (/\ last'.err = "unconfirmed"
                      /\ grid_leaders' = grid_leaders
                      /\ assessments' = assessments
                      /\ seq_leaders' = seq_leaders
                      /\ seq_assessments' = seq_assessments))]_vars

\* C16 happens: after an import that stopped at a date error (its leader row
\* is there, no record is) the script has run again and imported nothing.
C16_Witness ==
    /\ last.op = "rerun"
    /\ last.err = "unconfirmed"
    /\ ~confirm_import
    /\ Len(grid_leaders) = 1
    /\ grid_leaders[1].name # SampleName
    /\ assessments = << >>
    /\ seq_assessments = 0
====
